---------------------------- MODULE Spec2Model ----------------------------
(***************************************************************************)
(* Photo Map Viewer (koo5/horizon): the Qt variant (src/aiaiail/main.py)   *)
(* and the Kivy variant (src/kivy/main.py).                                *)
(*                                                                         *)
(* Numbers.  The programs compute in IEEE doubles; the model computes in   *)
(* integers on the inputs where the code's arithmetic is exact: angles in  *)
(* whole degrees, coordinates in multiples of 90 degrees, a viewpoint on   *)
(* the equator and at most 90 degrees of longitude between viewpoint and   *)
(* photo.  On that grid sin and cos are -1, 0 or 1 and the rounded value   *)
(* the code computes is the integer the model computes.                    *)
(*                                                                         *)
(* Optional values.  Python's None is the empty tuple <<>>, a value v that *)
(* may be None is <<v>>.                                                   *)
(***************************************************************************)
EXTENDS Integers, Sequences, FiniteSets, TLC

VARIABLES
    app,              \* "qt" | "kivy" | "none": which program is running
    pc,               \* "running" | "exited" (main's sys.exit(1)) | "scan" | "angle"
    directory,        \* the files os.walk yields, in walk order
    scanned,          \* which scanners have run over directory (scan specification)
    photo_list,       \* Qt: MainWindow.photo_list
    images,           \* Kivy: PhotoMapApp.images_with_metadata
    left_layout,      \* the left pane's widgets, top to bottom
    selected_photos,  \* Qt: update_left_pane's selected_photos when it returned
    viewpoint,        \* <<>> or <<[lat, lng, rotation]>>: what the last handler call received
    map,              \* the map widget's centre and bearing
    backend,          \* JS: TRUE once the QWebChannel callback has assigned `backend`
    ready,            \* JS: TRUE once map.whenReady's callback has run
    lost,             \* TRUE once a sendMapChanged call has thrown (backend undefined)
    a1, a2, diff      \* angle_difference's arguments and result (angle specification)

vars == <<app, pc, directory, scanned, photo_list, images, left_layout,
          selected_photos, viewpoint, map, backend, ready, lost, a1, a2, diff>>

-----------------------------------------------------------------------------
(* Bounds *)

MaxPhotos == 3
MaxScanFiles == 2
MaxAngle == 300

-----------------------------------------------------------------------------
(* Python values *)

None == <<>>
Some(v) == <<v>>

\* An IEEE NaN: what PIL's IFDRational yields for a zero denominator.
NaN == 999999

Rat(n, d) == [num |-> n, den |-> d]

Abs(x) == IF x < 0 THEN -x ELSE x


-----------------------------------------------------------------------------
(* The files.  A file is its lower-cased name suffix and its EXIF GPS tags: *)
(* a tag is None when the file does not carry it.  GPSLatitude and          *)
(* GPSLongitude are triples of rationals (degrees, minutes, seconds),       *)
(* GPSImgDirection is one rational.  A file's path is its place in the walk.*)

IsJpeg(f) == f.ext \in {"jpg", "jpeg"}

HasGPSInfo(f) ==
    \/ f.GPSLatitude # None
    \/ f.GPSLatitudeRef # None
    \/ f.GPSLongitude # None
    \/ f.GPSLongitudeRef # None
    \/ f.GPSImgDirection # None

-----------------------------------------------------------------------------
(* Qt variant: metadata extraction (PIL).  PIL hands a rational to the code *)
(* as a number, NaN when its denominator is 0; GPSImgDirection reaches the  *)
(* code as the tuple (num, den) that line 61 tests for.  The quotients the  *)
(* model draws are exact (den divides num; minutes and seconds are          *)
(* multiples of 60 and 3600).                                               *)

qt_number(q) == IF q.den = 0 THEN NaN ELSE q.num \div q.den

qt_add(x, y) == IF x = NaN \/ y = NaN THEN NaN ELSE x + y

qt_neg(x) == IF x = NaN THEN NaN ELSE -x

qt_scaled(x, k) == IF x = NaN THEN NaN ELSE x \div k

\* d + (m / 60.0) + (s / 3600.0)
qt_convert_to_degrees(value) ==
    LET d == qt_number(value[1])
        m == qt_number(value[2])
        s == qt_number(value[3])
    IN  qt_add(qt_add(d, qt_scaled(m, 60)), qt_scaled(s, 3600))

Returned(lat, lon, direction) ==
    [raised |-> FALSE, lat |-> lat, lon |-> lon, direction |-> direction]

\* An exception other than the KeyError that line 65 catches.
Raised == [raised |-> TRUE, lat |-> None, lon |-> None, direction |-> None]

\* The statements of the try block run in order; a KeyError (a missing tag)
\* ends the block and returns what was assigned so far.
get_lat_lon_direction(f) ==
    IF ~HasGPSInfo(f) THEN Returned(None, None, None)
    ELSE IF f.GPSLatitude = None THEN Returned(None, None, None)
    ELSE LET lat0 == qt_convert_to_degrees(f.GPSLatitude[1]) IN
    IF f.GPSLatitudeRef = None THEN Returned(Some(lat0), None, None)
    ELSE LET lat == IF f.GPSLatitudeRef[1] # "N" THEN qt_neg(lat0) ELSE lat0 IN
    IF f.GPSLongitude = None THEN Returned(Some(lat), None, None)
    ELSE LET lon0 == qt_convert_to_degrees(f.GPSLongitude[1]) IN
    IF f.GPSLongitudeRef = None THEN Returned(Some(lat), Some(lon0), None)
    ELSE LET lon == IF f.GPSLongitudeRef[1] # "E" THEN qt_neg(lon0) ELSE lon0 IN
    IF f.GPSImgDirection = None THEN Returned(Some(lat), Some(lon), None)
    ELSE LET q == f.GPSImgDirection[1] IN
    IF q.den = 0 THEN Raised   \* ZeroDivisionError at line 62
    ELSE Returned(Some(lat), Some(lon), Some(q.num \div q.den))

\* The body of scan_directory's loop for the file at place i: photo_list
\* after it.
qt_scan_file(list, f, i) ==
    IF ~IsJpeg(f) THEN list
    ELSE LET got == get_lat_lon_direction(f) IN
         IF got.raised THEN list     \* except Exception: print, go on
         ELSE IF got.lat # None /\ got.lon # None /\ got.direction # None
              THEN Append(list, [filepath |-> i,
                                 latitude |-> got.lat[1],
                                 longitude |-> got.lon[1],
                                 direction |-> got.direction[1]])
              ELSE list

RECURSIVE qt_scan_from(_, _, _)
qt_scan_from(dir, i, list) ==
    IF i > Len(dir) THEN list
    ELSE qt_scan_from(dir, i + 1, qt_scan_file(list, dir[i], i))

scan_directory(dir) == qt_scan_from(dir, 1, <<>>)

-----------------------------------------------------------------------------
(* Kivy variant: metadata extraction (exifread).  A rational is a Ratio    *)
(* with num and den, and the code divides.                                 *)

Raises == [raised |-> TRUE, value |-> None]
Returns(v) == [raised |-> FALSE, value |-> v]

\* float(num) / float(den) for each of the three, then d + m/60 + s/3600.
kivy_convert_to_degrees(value) ==
    IF \E k \in 1..3 : value[k].den = 0 THEN Raises   \* ZeroDivisionError
    ELSE Returns(value[1].num \div value[1].den
                 + (value[2].num \div value[2].den) \div 60
                 + (value[3].num \div value[3].den) \div 3600)

\* [raised, value]: value is <<lat, lon>>, each None or a number.
get_decimal_coordinates(f) ==
    IF f.GPSLatitude # None /\ f.GPSLongitude # None
    THEN LET lat0 == kivy_convert_to_degrees(f.GPSLatitude[1])
             lon0 == kivy_convert_to_degrees(f.GPSLongitude[1])
         IN  IF lat0.raised \/ lon0.raised THEN Raises
             \* None.values: AttributeError
             ELSE IF f.GPSLatitudeRef = None \/ f.GPSLongitudeRef = None THEN Raises
             ELSE Returns(<<Some(IF f.GPSLatitudeRef[1] # "N"
                                 THEN -lat0.value ELSE lat0.value),
                            Some(IF f.GPSLongitudeRef[1] # "E"
                                 THEN -lon0.value ELSE lon0.value)>>)
    ELSE Returns(<<None, None>>)

get_orientation(f) ==
    IF f.GPSImgDirection = None THEN Returns(None)
    ELSE LET q == f.GPSImgDirection[1] IN
         IF q.den = 0 THEN Raises    \* ZeroDivisionError
         ELSE Returns(Some(q.num \div q.den))

\* Python's truth value of a number or None: None, 0.0 and -0.0 are false.
Truthy(v) == v # None /\ v[1] # 0

\* The body of scan_directory_for_images' loop for the file at place i.
kivy_scan_file(list, f, i) ==
    IF ~IsJpeg(f) THEN list
    ELSE LET coords == get_decimal_coordinates(f) IN
         IF coords.raised THEN list
         ELSE LET orientation == get_orientation(f) IN
              IF orientation.raised THEN list
              ELSE IF Truthy(coords.value[1]) /\ Truthy(coords.value[2])
                   THEN Append(list, [path |-> i,
                                      latitude |-> coords.value[1][1],
                                      longitude |-> coords.value[2][1],
                                      orientation |-> orientation.value])
                   ELSE list

RECURSIVE kivy_scan_from(_, _, _)
kivy_scan_from(dir, i, list) ==
    IF i > Len(dir) THEN list
    ELSE kivy_scan_from(dir, i + 1, kivy_scan_file(list, dir[i], i))

scan_directory_for_images(dir) == kivy_scan_from(dir, 1, <<>>)

-----------------------------------------------------------------------------
(* Qt variant: the geometry.  Angles are whole degrees; sin and cos are    *)
(* taken at multiples of 90 degrees only, where they are -1, 0 or 1.       *)

\* math.sin(math.radians(d))
Sin(d) == CASE d % 360 = 0 -> 0
            [] d % 360 = 90 -> 1
            [] d % 360 = 180 -> 0
            [] d % 360 = 270 -> -1

\* math.cos(math.radians(d))
Cos(d) == CASE d % 360 = 0 -> 1
            [] d % 360 = 90 -> 0
            [] d % 360 = 180 -> -1
            [] d % 360 = 270 -> 0

\* Earth radius in kilometers
r == 6371

\* 2 * math.asin(math.sqrt(a)) in degrees, for twice a: a is 0, 1/2 or 1.
ArcDegrees(twice_a) == CASE twice_a = 0 -> 0
                         [] twice_a = 1 -> 90
                         [] twice_a = 2 -> 180

\* The distance in whole kilometers.  The code's a is
\* sin(dlat/2)^2 + cos(lat1) * cos(lat2) * sin(dlon/2)^2; twice it is taken
\* with 2 * sin(x/2)^2 = 1 - cos(x), and pi is 355/113.
haversine(lon1, lat1, lon2, lat2) ==
    LET dlon == lon2 - lon1
        dlat == lat2 - lat1
        twice_a == (1 - Cos(dlat)) + Cos(lat1) * Cos(lat2) * (1 - Cos(dlon))
        c == ArcDegrees(twice_a)
    IN  (c * r * 355) \div (113 * 180)

\* math.degrees(math.atan2(x, y)) for x and y among -1, 0, 1.
Atan2Degrees(x, y) ==
    CASE x = 0 /\ y >= 0 -> 0
      [] x = 0 /\ y < 0 -> 180
      [] x > 0 /\ y = 0 -> 90
      [] x < 0 /\ y = 0 -> -90
      [] x > 0 /\ y = x -> 45
      [] x > 0 /\ y = -x -> 135
      [] x < 0 /\ y = -x -> -45
      [] x < 0 /\ y = x -> -135

compute_bearing(lat1, lon1, lat2, lon2) ==
    LET diffLong == lon2 - lon1
        x == Sin(diffLong) * Cos(lat2)
        y == Cos(lat1) * Sin(lat2) - (Sin(lat1) * Cos(lat2) * Cos(diffLong))
        initial_bearing == Atan2Degrees(x, y)
    IN  (initial_bearing + 360) % 360

\* A slip: the difference reduced into 0..359, not shifted around 0.
angle_difference_unshifted(x1, x2) == (x2 - x1 + 360) % 360

\* Python's % with a positive divisor is TLA+'s: the result is in 0..359.
angle_difference(x1, x2) == ((x2 - x1 + 180 + 360) % 360) - 180

-----------------------------------------------------------------------------
(* Qt variant: MainWindow.update_left_pane *)

RemoveAt(seq, i) == SubSeq(seq, 1, i - 1) \o SubSeq(seq, i + 1, Len(seq))

\* A slip: the items removed in forward order, so that every second one stays.
RECURSIVE clear_forward(_, _)
clear_forward(layout, i) ==
    IF i > Len(layout) THEN layout ELSE clear_forward(RemoveAt(layout, i), i + 1)

clear_layout_forward(layout) == clear_forward(layout, 1)

\* for i in reversed(range(count)): remove the widget of item i
RECURSIVE clear_from(_, _)
clear_from(layout, i) ==
    IF i < 1 THEN layout ELSE clear_from(RemoveAt(layout, i), i - 1)

clear_layout(layout) == clear_from(layout, Len(layout))

\* A slip: the edge of the cone left out.
within_cone_strict(angle_diff) == Abs(angle_diff) < 30

\* if abs(angle_diff) <= 30
within_cone(angle_diff) == Abs(angle_diff) <= 30

\* A slip: the photo's own heading compared with the rotation, not the
\* bearing to the photo.
RECURSIVE select_from_by_heading(_, _, _, _, _, _)
select_from_by_heading(list, i, lat, lng, rotation, selected) ==
    IF i > Len(list) THEN selected
    ELSE LET photo == list[i]
             distance == haversine(lng, lat, photo.longitude, photo.latitude)
             angle_diff == angle_difference(rotation, photo.direction)
         IN  select_from_by_heading(list, i + 1, lat, lng, rotation,
                         IF Abs(angle_diff) <= 30
                         THEN Append(selected, [distance |-> distance, photo |-> photo])
                         ELSE selected)

\* The loop over photo_list from place i on: selected_photos after it.
RECURSIVE select_from(_, _, _, _, _, _)
select_from(list, i, lat, lng, rotation, selected) ==
    IF i > Len(list) THEN selected
    ELSE LET photo == list[i]
             distance == haversine(lng, lat, photo.longitude, photo.latitude)
             angle_to_photo == compute_bearing(lat, lng, photo.latitude, photo.longitude)
             angle_diff == angle_difference(rotation, angle_to_photo)
         IN  select_from(list, i + 1, lat, lng, rotation,
                         IF within_cone(angle_diff)
                         THEN Append(selected, [distance |-> distance, photo |-> photo])
                         ELSE selected)

\* A slip: an item put before the items of equal key (an unstable sort).
RECURSIVE insert_at_before_equal(_, _, _)
insert_at_before_equal(sorted, item, i) ==
    IF i > Len(sorted) \/ sorted[i].distance >= item.distance
    THEN SubSeq(sorted, 1, i - 1) \o <<item>> \o SubSeq(sorted, i, Len(sorted))
    ELSE insert_at_before_equal(sorted, item, i + 1)

\* Where list.sort puts an item among items already in order: after every
\* item whose key is not larger (the sort is stable).
RECURSIVE insert_at(_, _, _)
insert_at(sorted, item, i) ==
    IF i > Len(sorted) \/ sorted[i].distance > item.distance
    THEN SubSeq(sorted, 1, i - 1) \o <<item>> \o SubSeq(sorted, i, Len(sorted))
    ELSE insert_at(sorted, item, i + 1)

RECURSIVE sort_from(_, _, _)
sort_from(seq, i, sorted) ==
    IF i > Len(seq) THEN sorted
    ELSE sort_from(seq, i + 1, insert_at(sorted, seq[i], 1))

\* selected_photos.sort(key=lambda x: x[0])
sort_by_distance(seq) == sort_from(seq, 1, <<>>)

\* for distance, photo in selected_photos: addWidget(label of photo)
RECURSIVE add_labels(_, _, _)
add_labels(layout, selected, i) ==
    IF i > Len(selected) THEN layout
    ELSE add_labels(Append(layout, [pixmap |-> selected[i].photo.filepath]),
                    selected, i + 1)

\* A slip: the photos outside the cone dropped from photo_list itself.
update_left_pane_filters_photo_list(lat, lng, rotation) ==
    LET chosen == select_from(photo_list, 1, lat, lng, rotation, <<>>)
        sorted == sort_by_distance(chosen)
    IN  /\ selected_photos' = sorted
        /\ left_layout' = add_labels(<<>>, sorted, 1)
        /\ photo_list' = [k \in 1..Len(chosen) |-> chosen[k].photo]

update_left_pane(lat, lng, rotation) ==
    LET cleared == clear_layout(left_layout)
        chosen == select_from(photo_list, 1, lat, lng, rotation, <<>>)
        sorted == sort_by_distance(chosen)
    IN  /\ selected_photos' = sorted
        /\ left_layout' = add_labels(cleared, sorted, 1)
        /\ UNCHANGED photo_list

on_map_changed(lat, lng, rotation) ==
    /\ viewpoint' = Some([lat |-> lat, lng |-> lng, rotation |-> rotation])
    /\ update_left_pane(lat, lng, rotation)

-----------------------------------------------------------------------------
(* Qt variant: the map page (map_html_code) and the bridge.  A call of the *)
(* backend's slot from the page runs MapBackend.mapChanged, whose signal   *)
(* is connected to on_map_changed; calls arrive in the order they were     *)
(* made, so the call and its handling are one step.                        *)

QtRunning == app = "qt" /\ pc = "running"

mapChanged(lat, lng, rotation) == on_map_changed(lat, lng, rotation)

\* function sendMapChanged(): with `backend` still undefined the call
\* backend.mapChanged(...) throws a TypeError and nothing reaches Python.
sendMapChanged(m) ==
    IF backend
    THEN /\ mapChanged(m.lat, m.lng, m.rotation)
         /\ UNCHANGED lost
    ELSE /\ lost' = TRUE
         /\ UNCHANGED <<viewpoint, left_layout, selected_photos, photo_list>>

\* new QWebChannel(qt.webChannelTransport, function(channel) {...}): the
\* callback runs when the channel's reply arrives.
QWebChannelCallback ==
    /\ QtRunning
    /\ ~backend
    /\ backend' = TRUE
    /\ UNCHANGED <<app, pc, directory, scanned, photo_list, images, left_layout,
                   selected_photos, viewpoint, map, ready, lost, a1, a2, diff>>

\* map.whenReady(sendMapChanged): the map stands at setView([0, 0], 2).
whenReady ==
    /\ QtRunning
    /\ ~ready
    /\ ready' = TRUE
    /\ sendMapChanged(map)
    /\ UNCHANGED <<app, pc, directory, scanned, images, map, backend, a1, a2, diff>>

ViewLats == {0}
ViewLngs == {0, 90}
Rotations == {0, 31, 90, 180, 270, -30, 390}

\* map.on('moveend', sendMapChanged).  The handlers are registered by the
\* script that goes on to call map.whenReady, and the user's first move,
\* rotation or zoom comes after that script has run.
moveend ==
    /\ QtRunning
    /\ ready
    /\ \E lat \in ViewLats, lng \in ViewLngs :
          /\ map' = [map EXCEPT !.lat = lat, !.lng = lng]
          /\ sendMapChanged(map')
    /\ UNCHANGED <<app, pc, directory, scanned, images, backend, ready, a1, a2, diff>>

\* map.on('rotateend', sendMapChanged)
rotateend ==
    /\ QtRunning
    /\ ready
    /\ \E rotation \in Rotations :
          /\ map' = [map EXCEPT !.rotation = rotation]
          /\ sendMapChanged(map')
    /\ UNCHANGED <<app, pc, directory, scanned, images, backend, ready, a1, a2, diff>>

\* map.on('zoomend', sendMapChanged): the zoom is no part of the viewpoint.
zoomend ==
    /\ QtRunning
    /\ ready
    /\ sendMapChanged(map)
    /\ UNCHANGED <<app, pc, directory, scanned, images, map, backend, ready, a1, a2, diff>>

-----------------------------------------------------------------------------
(* Kivy variant: PhotoMapApp *)

KivyRunning == app = "kivy" /\ pc = "running"

RECURSIVE add_images(_, _, _)
add_images(layout, list, i) ==
    IF i > Len(list) THEN layout
    ELSE add_images(Append(layout, [source |-> list[i].path]), list, i + 1)

\* left_layout.clear_widgets(), then one Image per record of
\* images_with_metadata.
load_images(layout, list) == add_images(<<>>, list, 1)

on_map_event ==
    /\ viewpoint' = Some(map')
    /\ left_layout' = load_images(left_layout, images)
    /\ UNCHANGED <<app, pc, directory, scanned, photo_list, images, selected_photos,
                   backend, ready, lost, a1, a2, diff>>

\* map_view.bind(on_map_relocated=self.on_map_event)
on_map_relocated ==
    /\ KivyRunning
    /\ \E lat \in ViewLats, lng \in ViewLngs :
          map' = [map EXCEPT !.lat = lat, !.lng = lng]
    /\ on_map_event

\* map_view.bind(on_map_rotated=self.on_map_event)
on_map_rotated ==
    /\ KivyRunning
    /\ \E rotation \in Rotations : map' = [map EXCEPT !.rotation = rotation]
    /\ on_map_event

-----------------------------------------------------------------------------
(* The two programs, from the state main() leaves: the directory scanned,  *)
(* the window built, the map at latitude 0, longitude 0, bearing 0.        *)

Zero == Rat(0, 1)
Degrees(d) == <<Rat(d, 1), Zero, Zero>>

\* Photos on the equator at longitude 0 and 90 and at the two poles (two
\* of them at the north pole, with different headings), and a file without
\* GPS tags.  90 degrees is written in several ways.
GpsFile(lat, latRef, lon, heading) ==
    [ext |-> "jpg", GPSLatitude |-> Some(lat), GPSLatitudeRef |-> Some(latRef),
     GPSLongitude |-> Some(lon), GPSLongitudeRef |-> Some("E"),
     GPSImgDirection |-> Some(heading)]

AppFiles ==
    { GpsFile(Degrees(0), "N", Degrees(0), Zero),
      GpsFile(Degrees(0), "N", <<Rat(89, 1), Rat(60, 1), Zero>>, Zero),
      GpsFile(Degrees(90), "N", Degrees(90), Zero),
      GpsFile(<<Rat(89, 1), Rat(60, 1), Zero>>, "N", Degrees(90), Rat(180, 2)),
      GpsFile(<<Rat(180, 2), Zero, Zero>>, "S", <<Rat(89, 1), Zero, Rat(3600, 1)>>,
              Rat(90, 1)),
      [ext |-> "jpg", GPSLatitude |-> None, GPSLatitudeRef |-> None,
       GPSLongitude |-> None, GPSLongitudeRef |-> None,
       GPSImgDirection |-> None] }

Directories(files, n) == UNION { [1..k -> files] : k \in 0..n }

InitialMap == [lat |-> 0, lng |-> 0, rotation |-> 0]

Init ==
    /\ app \in {"qt", "kivy"}
    /\ directory \in Directories(AppFiles, MaxPhotos)
    /\ scanned = {}
    /\ photo_list = IF app = "qt" THEN scan_directory(directory) ELSE <<>>
    /\ images = IF app = "kivy" THEN scan_directory_for_images(directory) ELSE <<>>
    \* main(): if not photo_list: sys.exit(1)
    /\ pc = IF app = "qt" /\ photo_list = <<>> THEN "exited" ELSE "running"
    \* build() calls load_images()
    /\ left_layout = IF app = "kivy" THEN load_images(<<>>, images) ELSE <<>>
    /\ selected_photos = <<>>
    /\ viewpoint = None
    /\ map = InitialMap
    /\ backend = FALSE
    /\ ready = FALSE
    /\ lost = FALSE
    /\ a1 = 0 /\ a2 = 0 /\ diff = None

Next ==
    \/ QWebChannelCallback
    \/ whenReady
    \/ moveend
    \/ rotateend
    \/ zoomend
    \/ on_map_relocated
    \/ on_map_rotated

Spec == Init /\ [][Next]_vars

-----------------------------------------------------------------------------
(* The scanners alone, over directories of files with missing and          *)
(* malformed tags.                                                         *)

ScanFiles ==
    { [ext |-> "jpg", GPSLatitude |-> lat[1], GPSLatitudeRef |-> lat[2],
       GPSLongitude |-> lon, GPSLongitudeRef |-> Some("E"),
       GPSImgDirection |-> h] :
         lat \in { <<None, Some("N")>>,
                   <<Some(Degrees(0)), Some("N")>>,
                   <<Some(<<Rat(89, 1), Rat(60, 1), Zero>>), Some("N")>>,
                   <<Some(Degrees(90)), Some("S")>>,
                   <<Some(<<Rat(90, 0), Zero, Zero>>), Some("N")>> },
         lon \in { None, Some(Degrees(0)), Some(<<Rat(180, 2), Zero, Zero>>) },
         h \in { None, Some(Rat(0, 0)), Some(Rat(90, 1)) } }
    \cup { [ext |-> "png", GPSLatitude |-> Some(Degrees(90)), GPSLatitudeRef |-> Some("N"),
            GPSLongitude |-> Some(Degrees(90)), GPSLongitudeRef |-> Some("E"),
            GPSImgDirection |-> Some(Rat(90, 1))],
           [ext |-> "jpeg", GPSLatitude |-> Some(Degrees(90)), GPSLatitudeRef |-> None,
            GPSLongitude |-> Some(Degrees(90)), GPSLongitudeRef |-> None,
            GPSImgDirection |-> Some(Rat(90, 1))] }

InitScan ==
    /\ app = "none"
    /\ pc = "scan"
    /\ directory \in Directories(ScanFiles, MaxScanFiles)
    /\ scanned = {}
    /\ photo_list = <<>>
    /\ images = <<>>
    /\ left_layout = <<>>
    /\ selected_photos = <<>>
    /\ viewpoint = None
    /\ map = InitialMap
    /\ backend = FALSE
    /\ ready = FALSE
    /\ lost = FALSE
    /\ a1 = 0 /\ a2 = 0 /\ diff = None

\* main(): photo_list = scan_directory(args.directory)
ScanQt ==
    /\ pc = "scan"
    /\ "qt" \notin scanned
    /\ photo_list' = scan_directory(directory)
    /\ scanned' = scanned \cup {"qt"}
    /\ UNCHANGED <<app, pc, directory, images, left_layout, selected_photos,
                   viewpoint, map, backend, ready, lost, a1, a2, diff>>

\* PhotoMapApp.__init__: images_with_metadata = scan_directory_for_images(directory)
ScanKivy ==
    /\ pc = "scan"
    /\ "kivy" \notin scanned
    /\ images' = scan_directory_for_images(directory)
    /\ scanned' = scanned \cup {"kivy"}
    /\ UNCHANGED <<app, pc, directory, photo_list, left_layout, selected_photos,
                   viewpoint, map, backend, ready, lost, a1, a2, diff>>

NextScan == ScanQt \/ ScanKivy

SpecScan == InitScan /\ [][NextScan]_vars

-----------------------------------------------------------------------------
(* angle_difference alone, over whole degrees.                             *)

InitAngle ==
    /\ app = "none"
    /\ pc = "angle"
    /\ directory = <<>>
    /\ scanned = {}
    /\ photo_list = <<>>
    /\ images = <<>>
    /\ left_layout = <<>>
    /\ selected_photos = <<>>
    /\ viewpoint = None
    /\ map = InitialMap
    /\ backend = FALSE
    /\ ready = FALSE
    /\ lost = FALSE
    /\ a1 \in (-MaxAngle)..MaxAngle
    /\ a2 \in (-MaxAngle)..MaxAngle
    /\ diff = None

CallAngleDifference ==
    /\ pc = "angle"
    /\ diff = None
    /\ diff' = Some(angle_difference(a1, a2))
    /\ UNCHANGED <<app, pc, directory, scanned, photo_list, images, left_layout,
                   selected_photos, viewpoint, map, backend, ready, lost, a1, a2>>

NextAngle == CallAngleDifference

SpecAngle == InitAngle /\ [][NextAngle]_vars

-----------------------------------------------------------------------------
(* Claims about the Qt selection (specification Spec) *)

\* The viewpoint the last handler call received.
Seen == viewpoint[1]

Bearing(v, p) == compute_bearing(v.lat, v.lng, p.latitude, p.longitude)
Distance(v, p) == haversine(v.lng, v.lat, p.longitude, p.latitude)

\* How many entries of selected_photos hold photo p.
TimesSelected(p) ==
    Cardinality({k \in 1..Len(selected_photos) : selected_photos[k].photo = p})

\* C1: after update_left_pane(lat, lng, rotation), every photo of photo_list
\* is in the selected list exactly once if
\* |angle_difference(rotation, bearing from the viewpoint to the photo)| <= 30
\* and not at all otherwise, and the selected list holds nothing else.
C1_SelectedIffWithin30 ==
    (app = "qt" /\ viewpoint # None) =>
        /\ \A i \in 1..Len(photo_list) :
              TimesSelected(photo_list[i]) =
                  IF Abs(angle_difference(Seen.rotation, Bearing(Seen, photo_list[i]))) <= 30
                  THEN 1 ELSE 0
        /\ \A k \in 1..Len(selected_photos) :
              \E i \in 1..Len(photo_list) : selected_photos[k].photo = photo_list[i]

\* A photo exactly on the edge of the cone is selected, next to one that is
\* outside it.
C1_Witness ==
    /\ app = "qt" /\ viewpoint # None
    /\ \E i, j \in 1..Len(photo_list) :
          /\ Abs(angle_difference(Seen.rotation, Bearing(Seen, photo_list[i]))) = 30
          /\ TimesSelected(photo_list[i]) = 1
          /\ Abs(angle_difference(Seen.rotation, Bearing(Seen, photo_list[j]))) > 30
          /\ TimesSelected(photo_list[j]) = 0

\* The place of the photo with this path in photo_list.
PlaceOf(path) == CHOOSE i \in 1..Len(photo_list) : photo_list[i].filepath = path

\* C2: the (distance, photo) pairs update_left_pane renders are in
\* non-decreasing distance, two of equal distance stand in their photo_list
\* order, and the labels are laid out in that same order.
C2_NearestFirstStable ==
    (app = "qt" /\ viewpoint # None) =>
        /\ \A j, k \in 1..Len(selected_photos) :
              j < k =>
                 /\ selected_photos[j].distance <= selected_photos[k].distance
                 /\ selected_photos[j].distance = selected_photos[k].distance
                       => PlaceOf(selected_photos[j].photo.filepath)
                            < PlaceOf(selected_photos[k].photo.filepath)
        /\ \A k \in 1..Len(selected_photos) :
              selected_photos[k].distance = Distance(Seen, selected_photos[k].photo)
        /\ Len(left_layout) = Len(selected_photos)
        /\ \A k \in 1..Len(left_layout) :
              left_layout[k].pixmap = selected_photos[k].photo.filepath

\* Three photos rendered: the nearest was scanned last, the other two are
\* equally far.
C2_Witness ==
    /\ app = "qt" /\ viewpoint # None
    /\ Len(selected_photos) = 3
    /\ selected_photos[1].distance < selected_photos[2].distance
    /\ selected_photos[2].distance = selected_photos[3].distance
    /\ PlaceOf(selected_photos[1].photo.filepath) = 3

\* The places in photo_list of the photos inside viewpoint v's cone.
InCone(v) ==
    {i \in 1..Len(photo_list) :
        Abs(angle_difference(v.rotation, Bearing(v, photo_list[i]))) <= 30}

\* Photo at place i is rendered above the photo at place j.
Above(v, i, j) ==
    \/ Distance(v, photo_list[i]) < Distance(v, photo_list[j])
    \/ Distance(v, photo_list[i]) = Distance(v, photo_list[j]) /\ i < j

\* C3: after any sequence of events delivered to on_map_changed, the left
\* pane holds exactly the labels of the photos selected for the most recent
\* event's viewpoint, each once, in selection order: no label of an earlier
\* event is left.
C3_PaneShowsLatestSelection ==
    (app = "qt" /\ viewpoint # None) =>
        /\ Len(left_layout) = Cardinality(InCone(Seen))
        /\ {left_layout[k].pixmap : k \in 1..Len(left_layout)}
              = {photo_list[i].filepath : i \in InCone(Seen)}
        /\ \A j, k \in 1..Len(left_layout) :
              j < k => Above(Seen, PlaceOf(left_layout[j].pixmap),
                                   PlaceOf(left_layout[k].pixmap))

\* Every emission was delivered, the last one is not the initial one, and a
\* photo shown for the initial viewpoint is no longer in the pane while
\* another photo is.
C3_Witness ==
    /\ app = "qt" /\ viewpoint # None /\ ~lost
    /\ Seen # InitialMap
    /\ left_layout # <<>>
    /\ \E i \in InCone(InitialMap) :
          \A k \in 1..Len(left_layout) : left_layout[k].pixmap # photo_list[i].filepath

-----------------------------------------------------------------------------
(* Claims about the two programs' handlers (specification Spec) *)

\* Record p lies inside viewpoint v's cone.
Aligned(v, p) == Abs(angle_difference(v.rotation, Bearing(v, p))) <= 30

\* C4: in both programs, after a map event the left pane shows only photos
\* that lie inside the cone of the current viewpoint; in the Kivy variant,
\* after on_map_event no photo outside the cone is shown.
C4_PaneShowsOnlyAlignedPhotos ==
    viewpoint # None =>
        /\ app = "qt" =>
              \A k \in 1..Len(left_layout) :
                 \E i \in 1..Len(photo_list) :
                    /\ photo_list[i].filepath = left_layout[k].pixmap
                    /\ Aligned(Seen, photo_list[i])
        /\ app = "kivy" =>
              \A k \in 1..Len(left_layout) :
                 \E i \in 1..Len(images) :
                    /\ images[i].path = left_layout[k].source
                    /\ Aligned(Seen, images[i])

\* C5: every viewpoint the map page emits (at map-ready, and at each
\* moveend, zoomend and rotateend) reaches update_left_pane, whenever the
\* QWebChannel callback runs: no emission is lost, and once the map is ready
\* the pane was computed for the map's current viewpoint.
C5_NoEmissionLost ==
    app = "qt" =>
        /\ ~lost
        /\ ready => viewpoint = Some(map)

\* C9: no viewpoint event changes the photo collection: after any sequence
\* of on_map_changed (Qt) or on_map_event (Kivy) calls the list of records
\* is the one the directory scan produced, in length, order and fields.
C9_CollectionUnchanged ==
    /\ app = "qt" => photo_list = scan_directory(directory)
    /\ app = "kivy" => images = scan_directory_for_images(directory)

\* An event was handled that selected some photos of the collection and
\* left others out.
C9_Witness ==
    /\ app = "qt" /\ viewpoint # None
    /\ selected_photos # <<>>
    /\ Len(selected_photos) < Len(photo_list)

\* The paths of a selection, in order.
PathsOf(selected) == [k \in 1..Len(selected) |-> selected[k].photo.filepath]

Select(list, v) ==
    sort_by_distance(select_from(list, 1, v.lat, v.lng, v.rotation, <<>>))

Headings == {90, 270}

\* The list with the record at each place i given the heading h[i].
WithHeadings(list, h) == [i \in 1..Len(list) |-> [list[i] EXCEPT !.direction = h[i]]]

\* C10: which photos are selected, and in which order, does not depend on
\* the photos' own 'direction': every list that differs from photo_list
\* only in the direction fields gives, for the viewpoint just handled, the
\* members and the order the pane shows.
C10_HeadingIrrelevant ==
    (app = "qt" /\ viewpoint # None) =>
        \A h \in [1..Len(photo_list) -> Headings] :
            PathsOf(Select(WithHeadings(photo_list, h), Seen))
               = [k \in 1..Len(left_layout) |-> left_layout[k].pixmap]

\* Two photos at one place with different headings are both shown, and a
\* third photo is not.
C10_Witness ==
    /\ app = "qt" /\ viewpoint # None
    /\ \E i, j, k \in 1..Len(photo_list) :
          /\ photo_list[i].direction # photo_list[j].direction
          /\ photo_list[i].latitude = photo_list[j].latitude
          /\ photo_list[i].longitude = photo_list[j].longitude
          /\ TimesSelected(photo_list[i]) = 1
          /\ TimesSelected(photo_list[j]) = 1
          /\ TimesSelected(photo_list[k]) = 0

-----------------------------------------------------------------------------
(* Claims about angle_difference (specification SpecAngle) *)

\* a2 points exactly opposite to a1.
Opposite == (a2 - a1 - 180) % 360 = 0

\* C6 as stated: angle_difference(a, b) lies in (-180, 180]: it is never
\* -180, and it is 180 when b is exactly opposite a.
C6_RangeOpenBelow ==
    diff # None =>
        /\ -180 < diff[1] /\ diff[1] <= 180
        /\ Opposite => diff[1] = 180

\* C6 as amended: angle_difference(a, b) lies in [-180, 180): it is never
\* 180, it is -180 when b is exactly opposite a, and it differs from b - a
\* by a whole number of turns.
C6_RangeOpenAbove ==
    diff # None =>
        /\ -180 <= diff[1] /\ diff[1] < 180
        /\ Opposite => diff[1] = -180
        /\ (diff[1] - (a2 - a1)) % 360 = 0

\* The function was applied to opposite angles more than a turn apart.
C6_Witness ==
    /\ diff # None
    /\ Opposite
    /\ a2 - a1 < -360
    /\ diff[1] = -180

-----------------------------------------------------------------------------
(* Claims about the scanners (specification SpecScan) *)

ZeroDenominator(f) ==
    f.GPSImgDirection # None /\ f.GPSImgDirection[1].den = 0

\* The same files, those with a zero-denominator GPSImgDirection carrying no
\* GPSImgDirection tag at all.
WithoutBadHeadings(dir) ==
    [i \in 1..Len(dir) |->
        IF ZeroDenominator(dir[i]) THEN [dir[i] EXCEPT !.GPSImgDirection = None]
        ELSE dir[i]]

\* C7: a heading whose denominator is 0 is treated like a missing heading:
\* in each variant a scan yields the records it yields for the same files
\* with those GPSImgDirection tags absent.
C7_ZeroDenominatorAsMissing ==
    /\ "qt" \in scanned => photo_list = scan_directory(WithoutBadHeadings(directory))
    /\ "kivy" \in scanned =>
          images = scan_directory_for_images(WithoutBadHeadings(directory))

\* get_decimal_coordinates returned a latitude and a longitude.
CoordinatesDecoded(f) ==
    LET coords == get_decimal_coordinates(f)
    IN  ~coords.raised /\ coords.value[1] # None /\ coords.value[2] # None

\* C8: scan_directory_for_images appends a record for a JPEG file if and
\* only if both its latitude and its longitude could be determined, whatever
\* their values and whether or not the file has a heading.
C8_RecordIffCoordinates ==
    "kivy" \in scanned =>
        \A i \in 1..Len(directory) :
            (\E k \in 1..Len(images) : images[k].path = i)
               <=> (IsJpeg(directory[i]) /\ CoordinatesDecoded(directory[i]))

=============================================================================
